---- MODULE Spec2Model ----
(***************************************************************************)
(* Model of bin/submission_prep.py: the orchestrator main_prepare, the     *)
(* staging helper prepare_sra_fastqs and the __main__ driver with its      *)
(* top-level exception handler.                                            *)
(*                                                                         *)
(* One run of the script is a walk of pc through the statements of         *)
(* main_prepare; a statement that can raise has one outcome per way the    *)
(* code can leave it.  The collaborators imported from submission_helper   *)
(* (GetParams, the three builders, get_compound_extension, setup_logging)  *)
(* are not part of the source file: they are modelled by their contract.   *)
(***************************************************************************)
EXTENDS Integers, Sequences, FiniteSets, TLC

\* Largest number of sample descriptors on the command line.
MaxSamples == 2

\* Largest number of runs on one output directory, and of sample descriptors
\* on the command line of a run that is repeated.
MaxRuns == 2
MaxRerunSamples == 1

VARIABLES
    pc,             \* position of the run in the script
    params,         \* GetParams().parameters: the flags biosample, sra, genbank
    args,           \* params['sample']: the raw sample descriptors
    samples,        \* the Sample objects built so far (line 72)
    submission_dir, \* local submission_dir of main_prepare
    platforms,      \* local platforms (line 116)
    bi,             \* index of the current bucket in platforms (loop, line 117)
    si,             \* index of the current sample in the running sample loop
    builders,       \* every builder instance constructed in this run, in order
    dirs,           \* directories that exist under (and including) outdir
    sentinels,      \* directories that hold a submit.ready file
    descriptors,    \* directories that hold a finalized descriptor
    staged,         \* staged entries of prepare_sra_fastqs
    missing,        \* source paths that no longer exist on disk
    logExists,      \* {outdir}/prep_submission.log exists
    log,            \* its lines
    log_file_path_set, \* module-level _log_file_path is not None
    handlers,       \* logging.getLogger().handlers is non-empty
    exc,            \* the exception that is propagating, or NoExc
    copy,           \* the copy argument of prepare_sra_fastqs
    stageResult,    \* outcome of the last stand-alone staging call
    run             \* number of the run on this output directory, from 1

vars == <<pc, params, args, samples, submission_dir, platforms, bi, si, builders,
          dirs, sentinels, descriptors, staged, missing, logExists, log,
          log_file_path_set, handlers, exc, copy, stageResult, run>>

fsVars == <<dirs, sentinels, descriptors, staged, missing>>
logVars == <<logExists, log>>
\* what no statement of a run changes
inVars == <<params, args, copy, stageResult, run>>

----------------------------------------------------------------------------
(* Values *)

NoExc == "None"
NoPlatform == "None"
NoPath == <<>>
\* submission_dir before a repository section assigns it (line 68)
NoDir == <<"Production">>
Root == <<>>

SampleIdOf == <<"S1", "S2", "S3", "S4">>

\* A source path /a/{id}_{read}.{ext...} as its segments.
FastqPath(id, read) ==
    IF read = "R1" THEN <<id, "R1", "fastq", "gz">> ELSE <<id, "R2", "fq", "gz">>
NanoporePath(id) == <<id, "ont", "fastq", "gz">>

\* The descriptors that can stand at position i of params['sample'].
Descriptors(i) ==
    { [form |-> "ok", sample_id |-> SampleIdOf[i],
       fq1 |-> IF b[1] THEN FastqPath(SampleIdOf[i], "R1") ELSE NoPath,
       fq2 |-> IF b[2] THEN FastqPath(SampleIdOf[i], "R2") ELSE NoPath,
       nanopore |-> IF b[3] THEN NanoporePath(SampleIdOf[i]) ELSE NoPath]
      : b \in BOOLEAN \X BOOLEAN \X BOOLEAN }
    \cup
    { [form |-> f, sample_id |-> SampleIdOf[i], fq1 |-> NoPath, fq2 |-> NoPath,
       nanopore |-> NoPath] : f \in {"nosplit", "noid"} }

ArgLists ==
    UNION { { a \in [1..n -> UNION {Descriptors(i) : i \in 1..n}] :
                \A i \in 1..n : a[i] \in Descriptors(i) } : n \in 0..MaxSamples }

Sample(d) ==
    [sample_id |-> d.sample_id, fastq1 |-> d.fq1, fastq2 |-> d.fq2,
     nanopore |-> d.nanopore]

Line(level, text, arg) == [level |-> level, text |-> text, arg |-> arg]

----------------------------------------------------------------------------
(* Filesystem helpers *)

\* os.makedirs(d, exist_ok=True): d and every parent of it.
Makedirs(d, ds) == ds \cup { SubSeq(d, 1, k) : k \in 0..Len(d) }

\* os.path.lexists
LExists(dir, name, st) == \E e \in st : e.dir = dir /\ e.name = name

\* os.path.exists follows links: a link whose source is gone does not exist.
PathExists(dir, name, st, miss) ==
    \E e \in st : /\ e.dir = dir /\ e.name = name
                  /\ (e.kind = "file" \/ e.src \notin miss)

----------------------------------------------------------------------------
(* Platform routing, lines 114-116 *)

\* Faulty variant of BothReads: "or" in place of the "and" of line 22.
BothReads_Either(s) == s.fastq1 # NoPath \/ s.fastq2 # NoPath

BothReads(s) == s.fastq1 # NoPath /\ s.fastq2 # NoPath

\* illum = [s for s in samples if s.fastq1 and s.fastq2]
Illum(ss) == SelectSeq(ss, BothReads)

HasNanopore(s) == s.nanopore # NoPath

\* nano = [s for s in samples if s.nanopore]
Nano(ss) == SelectSeq(ss, HasNanopore)

Bucket(platform, samp_list) == [platform |-> platform, samp_list |-> samp_list]

\* Faulty variant of Platforms: the mixed case is not split, one bucket for all.
Platforms_NoSplit(ss) ==
    <<Bucket(NoPlatform, IF Illum(ss) # <<>> THEN Illum(ss) ELSE Nano(ss))>>

\* Faulty variant of Platforms: "illum or nano" in place of "illum and nano".
Platforms_SplitOnEither(ss) ==
    IF Illum(ss) # <<>> \/ Nano(ss) # <<>>
    THEN <<Bucket("illumina", Illum(ss)), Bucket("nanopore", Nano(ss))>>
    ELSE <<Bucket(NoPlatform, IF Illum(ss) # <<>> THEN Illum(ss) ELSE Nano(ss))>>

\* (('illumina', illum), ('nanopore', nano)) if illum and nano
\*     else [(None, illum or nano)]
Platforms(ss) ==
    IF Illum(ss) # <<>> /\ Nano(ss) # <<>>
    THEN <<Bucket("illumina", Illum(ss)), Bucket("nanopore", Nano(ss))>>
    ELSE <<Bucket(NoPlatform, IF Illum(ss) # <<>> THEN Illum(ss) ELSE Nano(ss))>>

\* Faulty variant of SraSubmissionDir: the platform is left out of the path.
SraSubmissionDir_NoPlatform(platform) == <<"sra">>

\* os.path.join(output_root, 'sra', platform) if platform
\*     else os.path.join(output_root, 'sra')
SraSubmissionDir(platform) ==
    IF platform # NoPlatform THEN <<"sra", platform>> ELSE <<"sra">>

----------------------------------------------------------------------------
(* prepare_sra_fastqs, lines 20-36 *)

\* The compound extension of a path: every segment after the first dot.
get_compound_extension(p) == SubSeq(p, 3, Len(p))

DestName(sample_id, read, ext) == <<sample_id, read>> \o ext

\* The placements of one sample, in order: fastq1 then fastq2 (lines 22-26).
SampleOps(s) ==
    IF BothReads(s)
    THEN << [src |-> s.fastq1,
             name |-> DestName(s.sample_id, "R1", get_compound_extension(s.fastq1))],
            [src |-> s.fastq2,
             name |-> DestName(s.sample_id, "R2", get_compound_extension(s.fastq2))] >>
    ELSE <<>>

RECURSIVE StageOps(_)
StageOps(ss) ==
    IF ss = <<>> THEN <<>> ELSE SampleOps(Head(ss)) \o StageOps(Tail(ss))

\* The guard of lines 27 and 32.
DestPresent(dir, name, st, miss) == PathExists(dir, name, st, miss)

\* Lines 27-31 (32-36) for one destination.  io_fault: the filesystem refuses
\* the creation (destination directory unwritable).
Place(op, dir, cp, st, miss, io_fault) ==
    IF DestPresent(dir, op.name, st, miss)
    THEN [staged |-> st, err |-> NoExc]
    ELSE IF io_fault
    THEN [staged |-> st, err |-> "StagingIOError"]
    ELSE IF cp
    THEN \* shutil.copy: the source must be readable; the destination is overwritten
         IF op.src \in miss
         THEN [staged |-> st, err |-> "FileNotFoundError"]
         ELSE [staged |-> { e \in st : ~(e.dir = dir /\ e.name = op.name) }
                          \cup {[dir |-> dir, name |-> op.name, kind |-> "file",
                                 src |-> op.src]},
               err |-> NoExc]
    ELSE \* os.symlink: needs no source, but fails on any existing entry
         IF LExists(dir, op.name, st)
         THEN [staged |-> st, err |-> "FileExistsError"]
         ELSE [staged |-> st \cup {[dir |-> dir, name |-> op.name, kind |-> "link",
                                    src |-> op.src]},
               err |-> NoExc]

RECURSIVE RunOps(_, _, _, _, _, _, _)
RunOps(ops, k, dir, cp, st, miss, faultAt) ==
    IF k > Len(ops)
    THEN [staged |-> st, err |-> NoExc]
    ELSE LET r == Place(ops[k], dir, cp, st, miss, faultAt = k)
         IN  IF r.err # NoExc THEN r
             ELSE RunOps(ops, k + 1, dir, cp, r.staged, miss, faultAt)

\* The whole call.  faultAt = 0: the filesystem refuses nothing.
prepare_sra_fastqs(samp_list, outdir, cp, st, miss, faultAt) ==
    RunOps(StageOps(samp_list), 1, outdir, cp, st, miss, faultAt)

----------------------------------------------------------------------------
(* Initial state: the process has started, outdir is empty *)

Init ==
    /\ pc = "start"
    /\ params \in [biosample : BOOLEAN, sra : BOOLEAN, genbank : BOOLEAN]
    /\ args \in ArgLists
    /\ samples = <<>>
    /\ submission_dir = NoDir
    /\ platforms = <<>>
    /\ bi = 0
    /\ si = 0
    /\ builders = <<>>
    /\ dirs = {}
    /\ sentinels = {}
    /\ descriptors = {}
    /\ staged = {}
    /\ missing = {}
    /\ logExists = FALSE
    /\ log = <<>>
    /\ log_file_path_set = FALSE
    /\ handlers = FALSE
    /\ exc = NoExc
    /\ copy = FALSE
    /\ stageResult = "none"
    /\ run = 1

\* An exception leaves main_prepare and reaches the except clause of line 219.
Raise(e) == pc' = "handler" /\ exc' = e

Builder(type, dir, platform) ==
    [type |-> type, dir |-> dir, platform |-> platform, st |-> "new", added |-> <<>>]

SetCur(field, value) ==
    [builders EXCEPT ![Len(builders)] = [@ EXCEPT ![field] = value]]

Cur == builders[Len(builders)]

----------------------------------------------------------------------------
(* main_prepare, lines 38-85: parameters, log file, logging, inputs *)

\* line 41
GetParameters ==
    /\ pc = "start"
    /\ \/ pc' = "init_log" /\ exc' = exc
       \/ Raise("ParamsError")
    /\ UNCHANGED <<samples, submission_dir, platforms, bi, si, builders, fsVars,
                   logVars, log_file_path_set, handlers, inVars>>

\* lines 43-54: outdir, _log_file_path, the initialization line
InitLog ==
    /\ pc = "init_log"
    /\ dirs' = Makedirs(Root, dirs)
    /\ log_file_path_set' = TRUE
    /\ \/ /\ logExists' = TRUE
          /\ log' = <<Line("INFO", "Log file initialized", NoExc)>>
          /\ pc' = "setup" /\ exc' = exc
       \/ \* open() fails: nothing is created
          /\ UNCHANGED logVars
          /\ Raise("LogIOError")
       \/ \* open() truncates, the write fails
          /\ logExists' = TRUE
          /\ log' = <<>>
          /\ Raise("LogIOError")
    /\ UNCHANGED <<samples, submission_dir, platforms, bi, si, builders, sentinels,
                   descriptors, staged, missing, handlers, inVars>>

\* lines 56-69: setup_logging, the first logging line, config and metadata
SetupAndLoad ==
    /\ pc = "setup"
    /\ \/ \* setup_logging raises
          /\ UNCHANGED <<handlers, logVars>>
          /\ Raise("LoggingError")
       \/ /\ handlers' = TRUE
          /\ log' = Append(log, Line("INFO", "Started logging for preparation.", NoExc))
          /\ logExists' = logExists
          /\ \/ pc' = "samples" /\ exc' = exc
             \/ Raise("LoadError")
    /\ UNCHANGED <<samples, submission_dir, platforms, bi, si, builders, fsVars,
                   log_file_path_set, inVars>>

\* Index of the first descriptor that line 74 or line 76 rejects; 0 if none.
FirstMalformed(a) ==
    IF \E i \in 1..Len(a) : a[i].form # "ok"
    THEN CHOOSE i \in 1..Len(a) :
            a[i].form # "ok" /\ \A j \in 1..(i - 1) : a[j].form = "ok"
    ELSE 0

\* Faulty variant of BuildSamples: a descriptor that cannot be parsed is
\* skipped and the run goes on with the others.
BuildSamples_SkipMalformed ==
    /\ pc = "samples"
    /\ samples' = [i \in 1..Len(SelectSeq(args, LAMBDA d : d.form = "ok"))
                     |-> Sample(SelectSeq(args, LAMBDA d : d.form = "ok")[i])]
    /\ pc' = "biosample" /\ exc' = exc
    /\ UNCHANGED <<submission_dir, platforms, bi, si, builders, fsVars, logVars,
                   log_file_path_set, handlers, inVars>>

\* lines 72-85
BuildSamples ==
    /\ pc = "samples"
    /\ LET bad == FirstMalformed(args)
       IN  IF bad = 0
           THEN /\ samples' = [i \in 1..Len(args) |-> Sample(args[i])]
                /\ pc' = "biosample" /\ exc' = exc
           ELSE /\ samples' = [i \in 1..(bad - 1) |-> Sample(args[i])]
                /\ Raise(IF args[bad].form = "nosplit" THEN "ValueError" ELSE "KeyError")
    /\ UNCHANGED <<submission_dir, platforms, bi, si, builders, fsVars, logVars,
                   log_file_path_set, handlers, inVars>>

----------------------------------------------------------------------------
(* main_prepare, lines 87-110: BioSample *)

\* line 88, flag false
BiosampleSkip ==
    /\ pc = "biosample" /\ ~params.biosample
    /\ pc' = "sra"
    /\ UNCHANGED <<samples, submission_dir, platforms, bi, si, builders, fsVars,
                   logVars, log_file_path_set, handlers, exc, inVars>>

\* lines 88-103: the directory and the builder bound to it
BiosampleOpen ==
    /\ pc = "biosample" /\ params.biosample
    /\ submission_dir' = <<"biosample">>
    /\ dirs' = Makedirs(<<"biosample">>, dirs)
    /\ builders' = Append(builders, Builder("biosample", <<"biosample">>, NoPlatform))
    /\ pc' = "bs_init"
    /\ UNCHANGED <<samples, platforms, bi, si, sentinels, descriptors, staged, missing,
                   logVars, log_file_path_set, handlers, exc, inVars>>

\* line 104
BsInitXmlRoot ==
    /\ pc = "bs_init"
    /\ \/ /\ builders' = SetCur("st", "open")
          /\ si' = 1
          /\ pc' = "bs_add" /\ exc' = exc
       \/ /\ UNCHANGED <<builders, si>>
          /\ Raise("BuilderError")
    /\ UNCHANGED <<samples, submission_dir, platforms, bi, fsVars, logVars,
                   log_file_path_set, handlers, inVars>>

\* lines 105-107, one iteration
BsAddSample ==
    /\ pc = "bs_add" /\ si <= Len(samples)
    /\ \/ /\ builders' = SetCur("added", Append(Cur.added, samples[si].sample_id))
          /\ si' = si + 1
          /\ pc' = pc /\ exc' = exc
       \/ /\ UNCHANGED <<builders, si>>
          /\ Raise("BuilderError")
    /\ UNCHANGED <<samples, submission_dir, platforms, bi, fsVars, logVars,
                   log_file_path_set, handlers, inVars>>

\* line 108
BsFinalizeXml ==
    /\ pc = "bs_add" /\ si > Len(samples)
    /\ \/ /\ builders' = SetCur("st", "final")
          /\ descriptors' = descriptors \cup {Cur.dir}
          /\ pc' = "bs_ready" /\ exc' = exc
       \/ /\ UNCHANGED <<builders, descriptors>>
          /\ Raise("BuilderError")
    /\ UNCHANGED <<samples, submission_dir, platforms, bi, si, dirs, sentinels, staged,
                   missing, logVars, log_file_path_set, handlers, inVars>>

\* line 110
BsWriteReady ==
    /\ pc = "bs_ready"
    /\ sentinels' = sentinels \cup {submission_dir}
    /\ pc' = "sra"
    /\ UNCHANGED <<samples, submission_dir, platforms, bi, si, builders, dirs,
                   descriptors, staged, missing, logVars, log_file_path_set, handlers,
                   exc, inVars>>

----------------------------------------------------------------------------
(* main_prepare, lines 112-143: SRA *)

\* Faulty variant of SraSkip: the sra directory is made before the flag is tested.
SraSkip_Mkdir ==
    /\ pc = "sra" /\ ~params.sra
    /\ dirs' = Makedirs(<<"sra">>, dirs)
    /\ pc' = "genbank"
    /\ UNCHANGED <<samples, submission_dir, platforms, bi, si, builders, sentinels,
                   descriptors, staged, missing, logVars, log_file_path_set, handlers,
                   exc, inVars>>

\* line 113, flag false
SraSkip ==
    /\ pc = "sra" /\ ~params.sra
    /\ pc' = "genbank"
    /\ UNCHANGED <<samples, submission_dir, platforms, bi, si, builders, fsVars,
                   logVars, log_file_path_set, handlers, exc, inVars>>

\* lines 113-116
SraRoute ==
    /\ pc = "sra" /\ params.sra
    /\ platforms' = Platforms(samples)
    /\ bi' = 1
    /\ pc' = "sra_bucket"
    /\ UNCHANGED <<samples, submission_dir, si, builders, fsVars, logVars,
                   log_file_path_set, handlers, exc, inVars>>

\* lines 117-134: the next bucket, its directory and its builder
SraBucketOpen ==
    /\ pc = "sra_bucket" /\ bi <= Len(platforms)
    /\ LET d == SraSubmissionDir(platforms[bi].platform)
       IN  /\ submission_dir' = d
           /\ dirs' = Makedirs(d, dirs)
           /\ builders' = Append(builders, Builder("sra", d, platforms[bi].platform))
    /\ pc' = "sra_init"
    /\ UNCHANGED <<samples, platforms, bi, si, sentinels, descriptors, staged, missing,
                   logVars, log_file_path_set, handlers, exc, inVars>>

\* line 117, the loop is exhausted
SraDone ==
    /\ pc = "sra_bucket" /\ bi > Len(platforms)
    /\ pc' = "genbank"
    /\ UNCHANGED <<samples, submission_dir, platforms, bi, si, builders, fsVars,
                   logVars, log_file_path_set, handlers, exc, inVars>>

\* line 135
SraInitXmlRoot ==
    /\ pc = "sra_init"
    /\ \/ /\ builders' = SetCur("st", "open")
          /\ si' = 1
          /\ pc' = "sra_add" /\ exc' = exc
       \/ /\ UNCHANGED <<builders, si>>
          /\ Raise("BuilderError")
    /\ UNCHANGED <<samples, submission_dir, platforms, bi, fsVars, logVars,
                   log_file_path_set, handlers, inVars>>

\* Faulty variant of SraAddSample: the loop runs over samples, not samp_list.
SraAddSample_AllSamples ==
    /\ pc = "sra_add" /\ si <= Len(samples)
    /\ \/ /\ builders' = SetCur("added", Append(Cur.added, samples[si].sample_id))
          /\ si' = si + 1
          /\ pc' = pc /\ exc' = exc
       \/ /\ UNCHANGED <<builders, si>>
          /\ Raise("BuilderError")
    /\ UNCHANGED <<samples, submission_dir, platforms, bi, fsVars, logVars,
                   log_file_path_set, handlers, inVars>>

\* lines 136-138, one iteration
SraAddSample ==
    /\ pc = "sra_add" /\ si <= Len(platforms[bi].samp_list)
    /\ \/ /\ builders' = SetCur("added",
                                Append(Cur.added, platforms[bi].samp_list[si].sample_id))
          /\ si' = si + 1
          /\ pc' = pc /\ exc' = exc
       \/ /\ UNCHANGED <<builders, si>>
          /\ Raise("BuilderError")
    /\ UNCHANGED <<samples, submission_dir, platforms, bi, fsVars, logVars,
                   log_file_path_set, handlers, inVars>>

\* Faulty variant of SraFinalizeXml: a failure of finalize_xml is swallowed and the
\* run goes on to write submit.ready.
SraFinalizeXml_Swallowed ==
    /\ pc = "sra_add" /\ si > Len(platforms[bi].samp_list)
    /\ \/ /\ builders' = SetCur("st", "final")
          /\ descriptors' = descriptors \cup {Cur.dir}
       \/ UNCHANGED <<builders, descriptors>>
    /\ pc' = "sra_ready" /\ exc' = exc
    /\ UNCHANGED <<samples, submission_dir, platforms, bi, si, dirs, sentinels, staged,
                   missing, logVars, log_file_path_set, handlers, inVars>>

\* line 139
SraFinalizeXml ==
    /\ pc = "sra_add" /\ si > Len(platforms[bi].samp_list)
    /\ \/ /\ builders' = SetCur("st", "final")
          /\ descriptors' = descriptors \cup {Cur.dir}
          /\ pc' = "sra_ready" /\ exc' = exc
       \/ /\ UNCHANGED <<builders, descriptors>>
          /\ Raise("BuilderError")
    /\ UNCHANGED <<samples, submission_dir, platforms, bi, si, dirs, sentinels, staged,
                   missing, logVars, log_file_path_set, handlers, inVars>>

\* line 141
SraWriteReady ==
    /\ pc = "sra_ready"
    /\ sentinels' = sentinels \cup {submission_dir}
    /\ pc' = "sra_stage"
    /\ UNCHANGED <<samples, submission_dir, platforms, bi, si, builders, dirs,
                   descriptors, staged, missing, logVars, log_file_path_set, handlers,
                   exc, inVars>>

\* line 143: the whole call prepare_sra_fastqs(samp_list, submission_dir, copy=False)
SraStage ==
    /\ pc = "sra_stage"
    /\ \E f \in 0..Len(StageOps(platforms[bi].samp_list)) :
          LET r == prepare_sra_fastqs(platforms[bi].samp_list, submission_dir, FALSE,
                                      staged, missing, f)
          IN  /\ staged' = r.staged
              /\ IF r.err = NoExc
                 THEN bi' = bi + 1 /\ pc' = "sra_bucket" /\ exc' = exc
                 ELSE bi' = bi /\ Raise(r.err)
    /\ UNCHANGED <<samples, submission_dir, platforms, si, builders, dirs, sentinels,
                   descriptors, missing, logVars, log_file_path_set, handlers, inVars>>

----------------------------------------------------------------------------
(* main_prepare, lines 145-163: GenBank *)

\* line 146, flag false
GenbankSkip ==
    /\ pc = "genbank" /\ ~params.genbank
    /\ pc' = "tail"
    /\ UNCHANGED <<samples, submission_dir, platforms, bi, si, builders, fsVars,
                   logVars, log_file_path_set, handlers, exc, inVars>>

\* lines 146-147: enter the loop over samples
GenbankEnter ==
    /\ pc = "genbank" /\ params.genbank
    /\ si' = 1
    /\ pc' = "gb_loop"
    /\ UNCHANGED <<samples, submission_dir, platforms, bi, builders, fsVars, logVars,
                   log_file_path_set, handlers, exc, inVars>>

\* Faulty variant of GbOpen: every sample is bound to outdir/genbank itself.
GbOpen_SharedDir ==
    /\ pc = "gb_loop" /\ si <= Len(samples)
    /\ submission_dir' = <<"genbank">>
    /\ dirs' = Makedirs(<<"genbank">>, dirs)
    /\ builders' = Append(builders, Builder("genbank", <<"genbank">>, NoPlatform))
    /\ pc' = "gb_drive"
    /\ UNCHANGED <<samples, platforms, bi, si, sentinels, descriptors, staged, missing,
                   logVars, log_file_path_set, handlers, exc, inVars>>

\* lines 148-162: the sample's directory and its builder
GbOpen ==
    /\ pc = "gb_loop" /\ si <= Len(samples)
    /\ LET d == <<"genbank", samples[si].sample_id>>
       IN  /\ submission_dir' = d
           /\ dirs' = Makedirs(d, dirs)
           /\ builders' = Append(builders, Builder("genbank", d, NoPlatform))
    /\ pc' = "gb_drive"
    /\ UNCHANGED <<samples, platforms, bi, si, sentinels, descriptors, staged, missing,
                   logVars, log_file_path_set, handlers, exc, inVars>>

\* Faulty variant of GbDriver: a failing driver is skipped over and the loop
\* goes on with the next sample.
GbDriver_Continue ==
    /\ pc = "gb_drive"
    /\ \/ builders' = SetCur("st", "driven")
       \/ UNCHANGED builders
    /\ si' = si + 1
    /\ pc' = "gb_loop" /\ exc' = exc
    /\ UNCHANGED <<samples, submission_dir, platforms, bi, fsVars, logVars,
                   log_file_path_set, handlers, inVars>>

\* line 163
GbDriver ==
    /\ pc = "gb_drive"
    /\ \/ /\ builders' = SetCur("st", "driven")
          /\ si' = si + 1
          /\ pc' = "gb_loop" /\ exc' = exc
       \/ /\ UNCHANGED <<builders, si>>
          /\ Raise("BuilderError")
    /\ UNCHANGED <<samples, submission_dir, platforms, bi, fsVars, logVars,
                   log_file_path_set, handlers, inVars>>

\* line 147, the loop is exhausted
GbDone ==
    /\ pc = "gb_loop" /\ si > Len(samples)
    /\ pc' = "tail"
    /\ UNCHANGED <<samples, submission_dir, platforms, bi, si, builders, fsVars,
                   logVars, log_file_path_set, handlers, exc, inVars>>

----------------------------------------------------------------------------
(* main_prepare, lines 165-204: the completion line and its verification *)

Completed == Line("INFO", "Script completed successfully", NoExc)

\* lines 179-197 on a log whose append of line 174 went through
VerifyLog(exists, content) ==
    LET kept == IF ~exists
                THEN <<Line("INFO", "Log file created at end of script", NoExc),
                       Completed>>
                ELSE content
    IN  IF kept = <<>>
        THEN <<Line("INFO", "Log file verified at end", NoExc)>>
        ELSE kept

CompletionLog ==
    /\ pc = "tail"
    /\ \/ \* line 174 appends; the file is read back
          /\ log' = VerifyLog(TRUE, Append(log, Completed))
          /\ logExists' = TRUE
          /\ pc' = "epilogue" /\ exc' = exc
       \/ \* line 174 appends; the read of line 190 raises: lines 198-204
          /\ log' = <<Line("INFO", "Log file recreated", "ReadError"), Completed>>
          /\ logExists' = TRUE
          /\ pc' = "epilogue" /\ exc' = exc
       \/ \* the append of line 174 raises
          /\ UNCHANGED logVars
          /\ Raise("LogIOError")
    /\ UNCHANGED <<samples, submission_dir, platforms, bi, si, builders, fsVars,
                   log_file_path_set, handlers, inVars>>

----------------------------------------------------------------------------
(* __main__, lines 206-252 *)

\* lines 209-218: main_prepare has returned
Epilogue ==
    /\ pc = "epilogue"
    /\ IF log_file_path_set /\ logExists
       THEN \/ /\ log' = Append(log, Line("INFO", "Script exiting normally", NoExc))
               /\ pc' = "exit_ok" /\ exc' = exc
            \/ /\ log' = log
               /\ Raise("LogIOError")
       ELSE log' = log /\ pc' = "exit_ok" /\ exc' = exc
    /\ UNCHANGED <<samples, submission_dir, platforms, bi, si, builders, fsVars,
                   logExists, log_file_path_set, handlers, inVars>>

ScriptFailed(e) == Line("ERROR", "Script failed", e)

\* lines 221-226: logging.error through the sink setup_logging attached
SinkError(l, e) ==
    IF handlers
    THEN Append(l, Line("ERROR", "Fatal error in submission_prep.py", e))
    ELSE l

\* Faulty variant of Handler: on failure the whole sra tree is rolled back.
Handler_Rollback ==
    /\ pc = "handler"
    /\ IF log_file_path_set
       THEN /\ log' = Append(SinkError(log, exc), ScriptFailed(exc))
            /\ logExists' = TRUE
       ELSE /\ log' = SinkError(log, exc)
            /\ logExists' = logExists
    /\ sentinels' = { d \in sentinels : d[1] # "sra" }
    /\ descriptors' = { d \in descriptors : d[1] # "sra" }
    /\ staged' = { e \in staged : e.dir[1] # "sra" }
    /\ pc' = "exit_fail"
    /\ UNCHANGED <<samples, submission_dir, platforms, bi, si, builders, dirs, missing,
                   log_file_path_set, handlers, exc, inVars>>

\* Faulty variant of Handler: the bare raise of line 252 is missing.
Handler_NoReraise ==
    /\ pc = "handler"
    /\ IF log_file_path_set
       THEN /\ log' = Append(SinkError(log, exc), ScriptFailed(exc))
            /\ logExists' = TRUE
       ELSE /\ log' = SinkError(log, exc)
            /\ logExists' = logExists
    /\ pc' = "exit_ok"
    /\ UNCHANGED <<samples, submission_dir, platforms, bi, si, builders, fsVars,
                   log_file_path_set, handlers, exc, inVars>>

\* lines 219-252: the except clause; it always ends in the bare raise
Handler ==
    /\ pc = "handler"
    /\ IF log_file_path_set
       THEN \/ \* lines 232-235
               /\ log' = Append(SinkError(log, exc), ScriptFailed(exc))
               /\ logExists' = TRUE
            \/ \* the append raises; lines 241-247 recreate the file
               /\ log' = <<ScriptFailed(exc),
                           Line("ERROR", "Original write error", "LogIOError")>>
               /\ logExists' = TRUE
            \/ \* the append raises and so does the recreation: lines 248-251
               /\ log' = SinkError(log, exc)
               /\ logExists' = logExists
       ELSE /\ log' = SinkError(log, exc)
            /\ logExists' = logExists
    /\ pc' = "exit_fail"
    /\ UNCHANGED <<samples, submission_dir, platforms, bi, si, builders, fsVars,
                   log_file_path_set, handlers, exc, inVars>>

----------------------------------------------------------------------------

Next ==
    \/ GetParameters \/ InitLog \/ SetupAndLoad \/ BuildSamples
    \/ BiosampleSkip \/ BiosampleOpen \/ BsInitXmlRoot \/ BsAddSample
    \/ BsFinalizeXml \/ BsWriteReady
    \/ SraSkip \/ SraRoute \/ SraBucketOpen \/ SraDone \/ SraInitXmlRoot
    \/ SraAddSample \/ SraFinalizeXml \/ SraWriteReady \/ SraStage
    \/ GenbankSkip \/ GenbankEnter \/ GbOpen \/ GbDriver \/ GbDone
    \/ CompletionLog \/ Epilogue \/ Handler

Spec == Init /\ [][Next]_vars

----------------------------------------------------------------------------
(* prepare_sra_fastqs on its own: repeated calls on one destination        *)
(* directory, with the sources free to disappear between the calls.        *)

SampleLists ==
    { [i \in 1..Len(a) |-> Sample(a[i])] :
        a \in { b \in ArgLists : \A i \in 1..Len(b) : b[i].form = "ok" } }

Sources(ss) ==
    UNION { {ss[i].fastq1, ss[i].fastq2} \ {NoPath} : i \in 1..Len(ss) }

InitStaging ==
    /\ pc = "staging"
    /\ params = [biosample |-> FALSE, sra |-> TRUE, genbank |-> FALSE]
    /\ args = <<>>
    /\ samples \in SampleLists
    /\ submission_dir \in {<<"sra">>, <<"sra", "illumina">>}
    /\ platforms = <<>>
    /\ bi = 0
    /\ si = 0
    /\ builders = <<>>
    /\ dirs = Makedirs(submission_dir, {})
    /\ sentinels = {}
    /\ descriptors = {}
    /\ staged = {}
    /\ missing = {}
    /\ logExists = FALSE
    /\ log = <<>>
    /\ log_file_path_set = FALSE
    /\ handlers = FALSE
    /\ exc = NoExc
    /\ copy \in BOOLEAN
    /\ stageResult = "none"
    /\ run = 1

\* One whole call prepare_sra_fastqs(samples, submission_dir, copy)
StageCall ==
    /\ pc = "staging"
    /\ \E f \in 0..Len(StageOps(samples)) :
          LET r == prepare_sra_fastqs(samples, submission_dir, copy, staged, missing, f)
          IN  /\ staged' = r.staged
              /\ stageResult' = IF r.err = NoExc THEN "ok" ELSE r.err
    /\ UNCHANGED <<pc, params, args, samples, submission_dir, platforms, bi, si,
                   builders, dirs, sentinels, descriptors, missing, logVars,
                   log_file_path_set, handlers, exc, copy, run>>

\* Between two calls somebody removes a source file.
RemoveSource ==
    /\ pc = "staging"
    /\ \E p \in Sources(samples) \ missing : missing' = missing \cup {p}
    /\ UNCHANGED <<pc, params, args, samples, submission_dir, platforms, bi, si,
                   builders, dirs, sentinels, descriptors, staged, logVars,
                   log_file_path_set, handlers, exc, copy, stageResult, run>>

NextStaging == StageCall \/ RemoveSource

SpecStaging == InitStaging /\ [][NextStaging]_vars

----------------------------------------------------------------------------
(* Properties *)

AtExit == pc \in {"exit_ok", "exit_fail"}

\* The builders of one repository, in construction order.
BuildersOf(type) == SelectSeq(builders, LAMBDA b : b.type = type)

Ids(ss) == [i \in 1..Len(ss) |-> ss[i].sample_id]

\* C1: in a run started on an empty output directory, a biosample or SRA
\* submission directory holds submit.ready only if the builder bound to that
\* directory has returned from finalize_xml in this run; a directory whose
\* builder raised in init_xml_root, add_sample or finalize_xml has none.
C1_ReadyOnlyAfterFinalize ==
    \A d \in sentinels :
        \E i \in 1..Len(builders) :
            /\ builders[i].dir = d
            /\ builders[i].type \in {"biosample", "sra"}
            /\ builders[i].st = "final"

\* biosample was completed, then the SRA builder raised: sra has no sentinel
C1_Witness ==
    /\ pc = "exit_fail" /\ exc = "BuilderError"
    /\ <<"biosample">> \in sentinels
    /\ <<"sra">> \in dirs /\ <<"sra">> \notin sentinels
    /\ Cur.type = "sra" /\ Cur.st # "final"

\* C2: at process exit, on every exit path, prep_submission.log exists and is
\* not empty.
C2_LogAtEveryExit == AtExit => (logExists /\ log # <<>>)

\* C3: with sra enabled and neither subset non-empty, the router emits no
\* bucket: no sra directory, no SRA builder, no submit.ready under sra.
C3_NoBucketWhenBothEmpty ==
    (params.sra /\ Illum(samples) = <<>> /\ Nano(samples) = <<>>)
        => /\ platforms = <<>>
           /\ <<"sra">> \notin dirs
           /\ BuildersOf("sra") = <<>>
           /\ <<"sra">> \notin sentinels

\* C4: with sra enabled and both subsets non-empty, the router emits exactly
\* the two buckets (illumina, short reads) and (nanopore, long reads) in this
\* order; each is built in its own directory sra/illumina, sra/nanopore with
\* its own builder, nothing is built in sra itself, and a run that ends well
\* leaves both directories finalized with submit.ready, every sample of a
\* subset (so every sample with both modalities, in both) passed to add_sample.
C4_TwoBucketsWhenBoth ==
    (params.sra /\ platforms # <<>> /\ Illum(samples) # <<>> /\ Nano(samples) # <<>>)
        => /\ platforms = << [platform |-> "illumina", samp_list |-> Illum(samples)],
                             [platform |-> "nanopore", samp_list |-> Nano(samples)] >>
           /\ LET sb == BuildersOf("sra")
              IN  /\ Len(sb) <= 2
                  /\ Len(sb) >= 1 => sb[1].dir = <<"sra", "illumina">>
                  /\ Len(sb) = 2 => sb[2].dir = <<"sra", "nanopore">>
                  /\ <<"sra">> \notin sentinels
                  /\ pc = "exit_ok" =>
                        /\ Len(sb) = 2
                        /\ sb[1].st = "final" /\ sb[2].st = "final"
                        /\ sb[1].added = Ids(Illum(samples))
                        /\ sb[2].added = Ids(Nano(samples))
                        /\ {<<"sra", "illumina">>, <<"sra", "nanopore">>} \subseteq dirs
                        /\ {<<"sra", "illumina">>, <<"sra", "nanopore">>} \subseteq sentinels
                        /\ \A i \in 1..Len(samples) :
                              (BothReads(samples[i]) /\ HasNanopore(samples[i]))
                                 => /\ \E k \in 1..Len(sb[1].added) :
                                          sb[1].added[k] = samples[i].sample_id
                                    /\ \E k \in 1..Len(sb[2].added) :
                                          sb[2].added[k] = samples[i].sample_id

\* a run ended well with a sample that has paired reads and a nanopore file
C4_Witness ==
    /\ pc = "exit_ok" /\ params.sra
    /\ \E i \in 1..Len(samples) : BothReads(samples[i]) /\ HasNanopore(samples[i])
    /\ {<<"sra", "illumina">>, <<"sra", "nanopore">>} \subseteq sentinels

\* C5: with sra enabled and exactly one subset non-empty, the router emits
\* exactly one bucket, without platform label, holding the non-empty subset;
\* it is built in sra itself and neither sra/illumina nor sra/nanopore exists.
C5_OneUnlabeledBucket ==
    (params.sra /\ platforms # <<>>
       /\ ((Illum(samples) # <<>>) # (Nano(samples) # <<>>)))
        => /\ Len(platforms) = 1
           /\ platforms[1].platform = NoPlatform
           /\ platforms[1].samp_list =
                 (IF Illum(samples) # <<>> THEN Illum(samples) ELSE Nano(samples))
           /\ <<"sra", "illumina">> \notin dirs
           /\ <<"sra", "nanopore">> \notin dirs
           /\ Len(BuildersOf("sra")) <= 1
           /\ \A i \in 1..Len(builders) :
                 builders[i].type = "sra" => builders[i].dir = <<"sra">>
           /\ pc = "exit_ok" =>
                 /\ <<"sra">> \in sentinels
                 /\ Len(BuildersOf("sra")) = 1
                 /\ BuildersOf("sra")[1].added = Ids(platforms[1].samp_list)

\* a run ended well whose only modality is nanopore
C5_Witness ==
    /\ pc = "exit_ok" /\ params.sra
    /\ Illum(samples) = <<>> /\ Nano(samples) # <<>>
    /\ <<"sra">> \in sentinels

\* C6: staging is idempotent: a call of prepare_sra_fastqs that follows a
\* successful call on the same samples and directory raises nothing and leaves
\* the staged entries as they were, whatever happened to the sources between
\* the two calls.
C6_StagingIdempotent ==
    [][(pc = "staging" /\ stageResult = "ok" /\ missing' = missing)
          => (stageResult' = "ok" /\ staged' = staged)]_vars

\* C7: whenever an exception leaves main_prepare after the log path was set,
\* the handler appends the line '[ERROR] Script failed: <message>' to the log
\* and re-raises the same exception, so the process ends failed; it ends well
\* only when no exception occurred.
C7_HandlerAppendsAndReraises ==
    /\ [](pc = "exit_ok" => exc = NoExc)
    /\ [](pc = "exit_fail" => exc # NoExc)
    /\ [][(pc = "handler" /\ log_file_path_set)
             => /\ logExists'
                /\ Len(log') > Len(log)
                /\ SubSeq(log', 1, Len(log)) = log
                /\ \E k \in (Len(log) + 1)..Len(log') : log'[k] = ScriptFailed(exc)
                /\ pc' = "exit_fail"
                /\ exc' = exc]_vars

\* C7, amended: the handler always re-raises the exception it caught, and the
\* process ends failed exactly when an exception occurred; the line is
\* appended when the log can be written, and when it cannot the handler
\* either recreates the log with that line first or leaves the log as it is.
C7_HandlerReraises ==
    /\ [](pc = "exit_ok" => exc = NoExc)
    /\ [](pc = "exit_fail" => exc # NoExc)
    /\ [][pc = "handler"
             => /\ pc' = "exit_fail"
                /\ exc' = exc
                /\ log_file_path_set
                      => \/ /\ log' = Append(SinkError(log, exc), ScriptFailed(exc))
                            /\ logExists'
                         \/ /\ Len(log') = 2 /\ log'[1] = ScriptFailed(exc)
                            /\ logExists'
                         \/ /\ log' = SinkError(log, exc)
                            /\ logExists' = logExists]_vars

\* a builder raised, the handler appended the line and the process ended failed
C7_Witness ==
    /\ pc = "exit_fail" /\ exc = "BuilderError" /\ log_file_path_set
    /\ Len(log) >= 4
    /\ log[1] = Line("INFO", "Log file initialized", NoExc)
    /\ log[Len(log)] = ScriptFailed("BuilderError")

\* The run ended because the driver of the current GenBank builder raised.
GbDriverRaised ==
    /\ pc = "exit_fail" /\ builders # <<>>
    /\ Cur.type = "genbank" /\ Cur.st = "new"

\* C8: with genbank enabled, if the driver raises for sample i, the samples
\* after i are still processed: each gets its directory and its driver call.
C8_GenbankContinuesAfterFailure ==
    GbDriverRaised =>
        \A j \in (si + 1)..Len(samples) :
            /\ <<"genbank", samples[j].sample_id>> \in dirs
            /\ \E k \in 1..Len(builders) :
                  builders[k].dir = <<"genbank", samples[j].sample_id>>

Touches(repository) ==
    \/ \E d \in dirs \cup sentinels \cup descriptors :
          d # <<>> /\ d[1] = repository
    \/ \E e \in staged : e.dir[1] = repository
    \/ BuildersOf(repository) # <<>>

\* C9: a repository whose flag is false is skipped: during the whole run no
\* directory under outdir/<repository> exists, no builder of it is constructed
\* and nothing (descriptor, staged file, submit.ready) is written for it.
C9_DisabledRepositoryUntouched ==
    /\ ~params.biosample => ~Touches("biosample")
    /\ ~params.sra => ~Touches("sra")
    /\ ~params.genbank => ~Touches("genbank")

\* a run ended well that did biosample and genbank and skipped sra
C9_Witness ==
    /\ pc = "exit_ok" /\ ~params.sra /\ params.biosample /\ params.genbank
    /\ Len(samples) >= 1
    /\ \E i \in 1..Len(samples) : BothReads(samples[i])
    /\ <<"biosample">> \in sentinels
    /\ <<"genbank", samples[1].sample_id>> \in dirs

\* The staged entries a complete SRA directory holds for sample s.
StagedFor(d, s) ==
    /\ LExists(d, DestName(s.sample_id, "R1", get_compound_extension(s.fastq1)), staged)
    /\ LExists(d, DestName(s.sample_id, "R2", get_compound_extension(s.fastq2)), staged)

\* C10: an SRA directory that holds submit.ready is complete: its descriptor
\* is finalized and the two staged files of every sample of its bucket that
\* has both paired files are in it.
C10_ReadyMeansStaged ==
    \A d \in sentinels :
        d[1] = "sra" =>
            /\ d \in descriptors
            /\ \A k \in 1..Len(platforms) :
                  SraSubmissionDir(platforms[k].platform) = d =>
                      \A i \in 1..Len(platforms[k].samp_list) :
                          BothReads(platforms[k].samp_list[i])
                              => StagedFor(d, platforms[k].samp_list[i])

\* The sample ids a biosample or SRA builder is fed, in order: the whole batch,
\* or the bucket of the builder's platform.
Feed(b) ==
    IF b.type = "biosample"
    THEN Ids(samples)
    ELSE IF \E k \in 1..Len(platforms) : platforms[k].platform = b.platform
         THEN Ids(platforms[CHOOSE k \in 1..Len(platforms) :
                                platforms[k].platform = b.platform].samp_list)
         ELSE <<>>

IsPrefix(s, t) == Len(s) <= Len(t) /\ SubSeq(t, 1, Len(s)) = s

\* One call on a builder: init_xml_root, the next add_sample, or finalize_xml.
LifecycleStep(b, c) ==
    \/ c = b
    \/ b.st = "new" /\ c = [b EXCEPT !.st = "open"]
    \/ /\ b.st = "open" /\ Len(b.added) < Len(Feed(b))
       /\ c = [b EXCEPT !.added = Append(b.added, Feed(b)[Len(b.added) + 1])]
    \/ b.st = "open" /\ b.added = Feed(b) /\ c = [b EXCEPT !.st = "final"]

\* C11: on every biosample or SRA builder the calls are init_xml_root once,
\* then add_sample once per sample of the batch or bucket in batch order, then
\* finalize_xml once; no add_sample before init_xml_root or after finalize_xml;
\* submit.ready is written only after finalize_xml.
C11_BuilderLifecycle ==
    /\ [](\A i \in 1..Len(builders) :
             builders[i].type \in {"biosample", "sra"} =>
                /\ builders[i].st = "new" => builders[i].added = <<>>
                /\ IsPrefix(builders[i].added, Feed(builders[i]))
                /\ builders[i].st = "final" => builders[i].added = Feed(builders[i])
                /\ (builders[i].dir \in sentinels) => builders[i].st = "final"
                /\ pc = "exit_ok" => builders[i].st = "final")
    /\ [][/\ Len(builders') >= Len(builders)
          /\ \A i \in 1..Len(builders) :
                builders[i].type \in {"biosample", "sra"} =>
                    LifecycleStep(builders[i], builders'[i])]_vars

\* a run ended well in which two samples went through one SRA builder
C11_Witness ==
    /\ pc = "exit_ok"
    /\ \E i \in 1..Len(builders) :
          /\ builders[i].type = "sra" /\ builders[i].st = "final"
          /\ Len(builders[i].added) = 2
          /\ builders[i].dir \in sentinels

Malformed == FirstMalformed(args) # 0

ParseError == exc \in {"ValueError", "KeyError"}

\* C12: if a sample descriptor is malformed the run aborts with an error and,
\* at the abort and at exit, the run has created no directory at all: neither
\* the output root nor a submission directory.
C12_MalformedCreatesNothing ==
    /\ Malformed => pc \in {"start", "init_log", "setup", "samples", "handler", "exit_fail"}
    /\ ParseError => dirs = {}

\* C12, amended: if a sample descriptor is malformed the run aborts with an
\* error before any repository is processed: no submission directory, builder,
\* descriptor, staged file or submit.ready exists at the abort or at exit; the
\* output root, made at line 43 for the log, is the only directory.
C12_MalformedCreatesNoSubmissionDir ==
    /\ Malformed =>
          /\ pc \in {"start", "init_log", "setup", "samples", "handler", "exit_fail"}
          /\ dirs \subseteq {Root}
          /\ builders = <<>>
          /\ sentinels = {} /\ descriptors = {} /\ staged = {}
    /\ ParseError => (Malformed /\ dirs = {Root} /\ pc \in {"handler", "exit_fail"})

\* the second descriptor has no sample_id; the run ended failed
C12_Witness ==
    /\ pc = "exit_fail" /\ exc = "KeyError"
    /\ params.biosample /\ params.sra /\ params.genbank
    /\ Len(args) = 2 /\ args[1].form = "ok" /\ args[2].form = "noid"
    /\ dirs = {Root}

\* Everything the run has put into directory d.
Content(d, sn, ds, st) ==
    [ready |-> d \in sn, descriptor |-> d \in ds, files |-> { e \in st : e.dir = d }]

\* The first of two SRA buckets is done: the loop is at the second or beyond.
FirstBucketDone == Len(platforms) = 2 /\ bi >= 2

\* C13: in the two-bucket SRA case a failure in the second bucket leaves the
\* first bucket as it was finalized: its descriptor, its submit.ready and its
\* staged files exist at process exit, and no step after the first bucket
\* removes or changes anything in its directory.
C13_SiblingBucketUntouched ==
    /\ [](FirstBucketDone =>
             /\ <<"sra", "illumina">> \in sentinels
             /\ <<"sra", "illumina">> \in descriptors
             /\ \A i \in 1..Len(platforms[1].samp_list) :
                   StagedFor(<<"sra", "illumina">>, platforms[1].samp_list[i]))
    /\ [][FirstBucketDone =>
             Content(<<"sra", "illumina">>, sentinels', descriptors', staged')
               = Content(<<"sra", "illumina">>, sentinels, descriptors, staged)]_vars

\* staging failed in the nanopore bucket; the illumina bucket is complete
C13_Witness ==
    /\ pc = "exit_fail" /\ exc = "StagingIOError"
    /\ Len(platforms) = 2 /\ bi = 2
    /\ <<"sra", "illumina">> \in sentinels
    /\ \E e \in staged : e.dir = <<"sra", "illumina">>

\* C14: creating the log file with its initialization line is the first step
\* of the run, before parameter loading and the creation of the output
\* directory: in every state after the first step the log exists, non-empty.
C14_LogCreatedFirst == pc # "start" => (logExists /\ log # <<>>)

\* Entry e is one of the two destinations of sample s in directory d.
DestinationOf(e, s, d) ==
    /\ s.fastq1 # NoPath /\ s.fastq2 # NoPath
    /\ e.dir = d
    /\ \/ /\ e.name = <<s.sample_id, "R1">> \o SubSeq(s.fastq1, 3, Len(s.fastq1))
          /\ e.src = s.fastq1
       \/ /\ e.name = <<s.sample_id, "R2">> \o SubSeq(s.fastq2, 3, Len(s.fastq2))
          /\ e.src = s.fastq2

\* C15: prepare_sra_fastqs acts on a sample only when fastq1 and fastq2 are
\* both present: it never changes or removes an entry, and every entry it
\* creates is {sample_id}_R1{ext1} or {sample_id}_R2{ext2} of such a sample, in
\* the destination directory; for other samples it creates nothing.
C15_StagesOnlyPairedSamples ==
    /\ [](/\ \A e \in staged : \E i \in 1..Len(samples) :
                DestinationOf(e, samples[i], submission_dir)
          /\ Cardinality(staged)
               <= 2 * Cardinality({ i \in 1..Len(samples) :
                                      samples[i].fastq1 # NoPath
                                        /\ samples[i].fastq2 # NoPath }))
    /\ [][staged \subseteq staged']_vars

\* a call went through on one sample with fastq1 only and one with both reads
C15_Witness ==
    /\ pc = "staging" /\ stageResult = "ok"
    /\ Len(samples) = 2
    /\ samples[1].fastq1 # NoPath /\ samples[1].fastq2 = NoPath
    /\ samples[2].fastq1 # NoPath /\ samples[2].fastq2 # NoPath
    /\ Cardinality(staged) = 2
    /\ \A e \in staged : e.name[1] = samples[2].sample_id

\* The directories directly below outdir/genbank.
GenbankDirs == { d \in dirs : Len(d) = 2 /\ d[1] = "genbank" }

\* C16: with genbank enabled and n samples with distinct ids, a run in which
\* no driver raises makes exactly the n directories outdir/genbank/{sample_id},
\* constructs one GenBank builder per sample, bound to that directory, and
\* invokes its driver exactly once, in batch order.
C16_GenbankOnePerSample ==
    params.genbank =>
        LET gb == BuildersOf("genbank")
        IN  /\ Len(gb) <= Len(samples)
            /\ \A k \in 1..Len(gb) :
                  /\ gb[k].dir = <<"genbank", samples[k].sample_id>>
                  /\ k < Len(gb) => gb[k].st = "driven"
            /\ GenbankDirs = { gb[k].dir : k \in 1..Len(gb) }
            /\ pc \in {"tail", "epilogue", "exit_ok"} =>
                  /\ Len(gb) = Len(samples)
                  /\ \A k \in 1..Len(gb) : gb[k].st = "driven"
                  /\ Cardinality(GenbankDirs) = Len(samples)

\* a run over two samples ended well with genbank enabled
C16_Witness ==
    /\ pc = "exit_ok" /\ params.genbank
    /\ Len(samples) = 2
    /\ Cardinality(GenbankDirs) = 2

----------------------------------------------------------------------------
(* The script run again on the same output directory: a new process, the   *)
(* same command line, the filesystem as the previous run left it.          *)

Rerun ==
    /\ pc \in {"exit_ok", "exit_fail"}
    /\ run < MaxRuns
    /\ run' = run + 1
    /\ pc' = "start"
    /\ samples' = <<>>
    /\ submission_dir' = NoDir
    /\ platforms' = <<>>
    /\ bi' = 0
    /\ si' = 0
    /\ builders' = <<>>
    /\ log_file_path_set' = FALSE
    /\ handlers' = FALSE
    /\ exc' = NoExc
    /\ UNCHANGED <<fsVars, logVars, params, args, copy, stageResult>>

InitRerun == Init /\ Len(args) <= MaxRerunSamples

NextRerun == Next \/ Rerun

SpecRerun == InitRerun /\ [][NextRerun]_vars

\* C17: the sentinel invariant survives a rerun on the same output directory:
\* if a run fails for a biosample or SRA directory before finalize_xml returns,
\* that directory holds no submit.ready when the run ends, also when an earlier
\* run had completed it.
C17_NoReadyAfterFailedRerun ==
    AtExit =>
        \A i \in 1..Len(builders) :
            (builders[i].type \in {"biosample", "sra"} /\ builders[i].st # "final")
                => builders[i].dir \notin sentinels

HasLine(l) == \E k \in 1..Len(log) : log[k] = l

\* Every enabled repository went through all of its steps in this run: the
\* run is at or past line 165.
RepositoriesDone ==
    \/ pc \in {"tail", "epilogue", "exit_ok"}
    \/ pc \in {"handler", "exit_fail"} /\ exc = "LogIOError" /\ handlers

\* C18: at process exit the log holds 'Script completed successfully' only if
\* every enabled repository finished all of its steps in this run, and never
\* after a builder or staging step raised, also when an earlier run on the
\* same output directory had succeeded.
C18_CompletedOnlyAfterSuccess ==
    AtExit =>
        /\ HasLine(Completed) => RepositoriesDone
        /\ exc \in {"BuilderError", "StagingIOError", "FileExistsError"}
              => ~HasLine(Completed)

Outputs == <<builders, dirs, sentinels, descriptors, staged>>

FailStop == (pc \in {"handler", "exit_fail"}) => UNCHANGED Outputs

Rank(type) == IF type = "biosample" THEN 1 ELSE IF type = "sra" THEN 2 ELSE 3

\* C19: the repositories are processed in the order biosample, sra (bucket
\* illumina before bucket nanopore), genbank, and processing is fail-stop: a
\* builder is constructed only when every builder before it has completed, and
\* once a step has raised nothing more is constructed or written below outdir
\* except the log.
C19_OrderedFailStop ==
    /\ [](/\ \A i, j \in 1..Len(builders) :
                i < j => /\ Rank(builders[i].type) <= Rank(builders[j].type)
                         /\ ~(/\ builders[i].type = "sra" /\ builders[j].type = "sra"
                              /\ builders[i].platform = "nanopore"
                              /\ builders[j].platform = "illumina")
          /\ \A i \in 1..(Len(builders) - 1) :
                /\ builders[i].st \in {"final", "driven"}
                /\ builders[i].type # "genbank" => builders[i].dir \in sentinels)
    /\ [][FailStop]_vars

\* biosample was completed, the SRA builder raised, genbank was never started
C19_Witness ==
    /\ pc = "exit_fail" /\ exc = "BuilderError"
    /\ params.biosample /\ params.sra /\ params.genbank
    /\ Len(samples) >= 1
    /\ Len(builders) = 2 /\ Cur.type = "sra"
    /\ <<"biosample">> \in sentinels
    /\ <<"genbank">> \notin dirs

\* The destinations the staging calls of this run are aimed at: one per bucket,
\* sample with both paired files and read.
StagingTargets ==
    { [bucket |-> k, op |-> i,
       dir |-> SraSubmissionDir(platforms[k].platform),
       name |-> StageOps(platforms[k].samp_list)[i].name]
      : <<k, i>> \in { <<k, i>> \in (1..Len(platforms)) \X (1..(2 * MaxSamples + 2)) :
                          i <= Len(StageOps(platforms[k].samp_list)) } }

====
